---- MODULE Spec2Model ----
(***************************************************************************)
(* Model of APG_Kenya1.py, the insurance guarantee cost calculator.        *)
(*                                                                         *)
(* The script is a Streamlit page: every widget change re-executes the     *)
(* whole script top to bottom in a fresh namespace.  The state is the      *)
(* widget values kept by the framework (widgets) and the namespace the     *)
(* last execution of the script produced (ns).                             *)
(*                                                                         *)
(* Numbers: the script computes on Python floats.  The model computes on   *)
(* exact rationals <<numerator, denominator>> in lowest terms with a       *)
(* positive denominator; <<0, 0>> stands for a value that was never        *)
(* produced because a division raised ZeroDivisionError.  Floating-point   *)
(* rounding is therefore not modelled.                                     *)
(***************************************************************************)
EXTENDS Integers, FiniteSets, Sequences, TLC

VARIABLES widgets, ns

vars == <<widgets, ns>>

----------------------------------------------------------------------------
(* Bounds of the model *)

\* total_contract_value is unbounded above in the code; the model tries
\* the multiples of the widget's default value up to MaxContractSteps times it.
MaxContractSteps == 1

default_total_contract_value == 320000000

----------------------------------------------------------------------------
(* Exact rational arithmetic standing for Python's float operators *)

Abs(x) == IF x < 0 THEN -x ELSE x

RECURSIVE GCD(_, _)
GCD(a, b) == IF b = 0 THEN a ELSE GCD(b, a % b)

Undef == <<0, 0>>

IsDef(x) == x[2] # 0

Norm(n, d) == LET g == GCD(Abs(n), d) IN <<n \div g, d \div g>>

Num(n) == <<n, 1>>

RNeg(x) == IF IsDef(x) THEN <<-x[1], x[2]>> ELSE Undef

\* x * y
RMul(x, y) ==
    IF ~IsDef(x) \/ ~IsDef(y) THEN Undef
    ELSE LET g1 == GCD(Abs(x[1]), y[2])
             g2 == GCD(Abs(y[1]), x[2])
         IN  <<(x[1] \div g1) * (y[1] \div g2), (x[2] \div g2) * (y[2] \div g1)>>

\* x / y; Python raises ZeroDivisionError when y is zero
RDiv(x, y) ==
    IF ~IsDef(x) \/ ~IsDef(y) \/ y[1] = 0 THEN Undef
    ELSE RMul(x, IF y[1] > 0 THEN <<y[2], y[1]>> ELSE <<-y[2], -y[1]>>)

\* x + y
RAdd(x, y) ==
    IF ~IsDef(x) \/ ~IsDef(y) THEN Undef
    ELSE LET l == (x[2] \div GCD(x[2], y[2])) * y[2]
         IN  Norm(x[1] * (l \div x[2]) + y[1] * (l \div y[2]), l)

\* x - y
RSub(x, y) == RAdd(x, RNeg(y))

\* comparisons, on produced values only
RSign(x) == IF x[1] > 0 THEN 1 ELSE IF x[1] < 0 THEN -1 ELSE 0

RLe(x, y) == IsDef(x) /\ IsDef(y) /\ RSign(RSub(x, y)) <= 0

RLt(x, y) == IsDef(x) /\ IsDef(y) /\ RSign(RSub(x, y)) < 0

----------------------------------------------------------------------------
(* Helper functions *)

calc_costs_fee(value, rate, duration_years) ==
    LET annual == RMul(value, rate)
        total  == RAdd(RMul(annual, duration_years), Num(1000))
    IN  [annual |-> annual, total |-> total]

calc_costs(value, rate, duration_years) ==
    LET annual == RMul(value, rate)
        total  == RMul(annual, duration_years)
    IN  [annual |-> annual, total |-> total]

----------------------------------------------------------------------------
(* Input section: the ranges the widgets enforce *)

total_contract_value_min == Num(0)

percent_slider_min == Num(0)

percent_slider_max == Num(100)

construction_duration_orig_min == 1

construction_duration_orig_max == 24

dlp_duration_min == 0

dlp_duration_max == 12

num_phases_min == 1

num_phases_max == 5

construction_duration_phased_min == 1

construction_duration_phased_max == 6

bank_fee_slider_min == <<1, 10>>

bank_fee_slider_max == Num(10)

\* a widget keeps a value only when it lies in the widget's range
InRange(v, lo, hi) == RLe(lo, v) /\ RLe(v, hi)

InIntRange_off_by_one(v, lo, hi) == lo - 1 <= v /\ v <= hi

InIntRange(v, lo, hi) == lo <= v /\ v <= hi

\* values a user tries to enter, in and out of the widgets' ranges
ContractAttempts == {Num(k * default_total_contract_value) : k \in (-1)..MaxContractSteps}

AdvancePercentAttempts == {Num(-10), Num(0), Num(40), Num(110)}

PgPercentOrigAttempts == {Num(-10), Num(0), Num(30), Num(110)}

PgPercentPhasedAttempts == {Num(-10), Num(0), Num(10), Num(100), Num(110)}

ConstructionOrigAttempts == {0, 1, 12, 25}

DlpOrigAttempts == {-1, 0, 6, 13}

NumPhasesAttempts == 0..6

ConstructionPhasedAttempts == {0, 1, 3, 6, 7}

DlpPhasedAttempts == {-1, 0, 6, 13}

BankFeeAttempts == {Num(0), <<1, 10>>, Num(1), Num(10), <<101, 10>>}

\* the widgets' values on the first run of the script
DefaultWidgets ==
    [ total_contract_value         |-> Num(default_total_contract_value),
      advance_payment_percent_orig |-> Num(40),
      pg_percent_orig              |-> Num(30),
      construction_duration_orig   |-> construction_duration_orig_min,
      dlp_duration_orig            |-> dlp_duration_min,
      num_phases                   |-> num_phases_min,
      pg_percent_phased            |-> Num(10),
      construction_duration_phased |-> construction_duration_phased_min,
      dlp_duration_phased          |-> dlp_duration_min,
      bank_fee_rate                |-> Num(1) ]

----------------------------------------------------------------------------
(* The script body: lines 33-45 read the widgets, lines 51-84 calculate *)

\* a percentage slider's value divided by 100
slider_fraction(slider_value) == RDiv(slider_value, Num(100))

apg_value_orig(total_contract_value, advance_payment_percent_orig) ==
    RMul(total_contract_value, advance_payment_percent_orig)

pg_value_orig(total_contract_value, pg_percent_orig) ==
    RMul(total_contract_value, pg_percent_orig)

phase_contract_value_off_by_one(total_contract_value, num_phases) ==
    RDiv(total_contract_value, Num(num_phases - 1))

phase_contract_value(total_contract_value, num_phases) ==
    RDiv(total_contract_value, Num(num_phases))

apg_value_phased(phase_value, advance_payment_percent_orig) ==
    RMul(phase_value, advance_payment_percent_orig)

pg_value_phased(phase_value, pg_percent_phased) ==
    RMul(phase_value, pg_percent_phased)

apg_duration_months(construction_duration) == Num(construction_duration)

\* construction months / 12
apg_duration(construction_duration) ==
    RDiv(Num(construction_duration), Num(12))

pg_duration_no_dlp(construction_duration, dlp_duration) ==
    RDiv(Num(construction_duration), Num(12))

\* (construction months + DLP months) / 12
pg_duration(construction_duration, dlp_duration) ==
    RDiv(Num(construction_duration + dlp_duration), Num(12))

total_cost_of_phases_single(cost_per_phase, num_phases) == cost_per_phase

\* per-phase cost * num_phases
total_cost_of_phases(cost_per_phase, num_phases) ==
    RMul(cost_per_phase, Num(num_phases))

\* APG total cost + PG total cost
total_cost_diff(apg_total_cost, pg_total_cost) ==
    RSub(apg_total_cost, pg_total_cost)

total_cost(apg_total_cost, pg_total_cost) ==
    RAdd(apg_total_cost, pg_total_cost)

Floor(x) == IF IsDef(x) THEN Num(x[1] \div x[2]) ELSE Undef

savings_rounded(cost_orig, cost_phased) == Floor(RSub(cost_orig, cost_phased))

savings(cost_orig, cost_phased) == RSub(cost_orig, cost_phased)

credit_line_orig(apg_orig) == apg_orig

credit_line_phased_apg_only(apg_phased, pg_phased) == apg_phased

credit_line_phased(apg_phased, pg_phased) == RAdd(apg_phased, pg_phased)

\* One execution of the script on the widget values wv: the namespace it
\* leaves behind.
Calculations(wv) ==
    LET tcv    == wv.total_contract_value
        app    == slider_fraction(wv.advance_payment_percent_orig)
        pgo    == slider_fraction(wv.pg_percent_orig)
        cdo    == wv.construction_duration_orig
        dlo    == wv.dlp_duration_orig
        np     == wv.num_phases
        pgp    == slider_fraction(wv.pg_percent_phased)
        cdp    == wv.construction_duration_phased
        dlp    == wv.dlp_duration_phased
        bfr    == slider_fraction(wv.bank_fee_rate)
        avo    == apg_value_orig(tcv, app)
        pvo    == pg_value_orig(tcv, pgo)
        pcv    == phase_contract_value(tcv, np)
        avp    == apg_value_phased(pcv, app)
        pvp    == pg_value_phased(pcv, pgp)
        ado    == apg_duration(cdo)
        pdo    == pg_duration(cdo, dlo)
        adp    == apg_duration(cdp)
        pdp    == pg_duration(cdp, dlp)
        aco    == calc_costs(avo, bfr, ado)
        pco    == calc_costs(pvo, bfr, pdo)
        tco    == total_cost(aco.total, pco.total)
        acp    == calc_costs(avp, bfr, adp)
        pcp    == calc_costs(pvp, bfr, pdp)
        atp    == total_cost_of_phases(acp.total, np)
        ptp    == total_cost_of_phases(pcp.total, np)
        tcp    == total_cost(atp, ptp)
        clo    == credit_line_orig(avo)
        clp    == credit_line_phased(avp, pvp)
    IN  [ total_contract_value         |-> tcv,
          advance_payment_percent_orig |-> app,
          pg_percent_orig              |-> pgo,
          construction_duration_orig   |-> cdo,
          dlp_duration_orig            |-> dlo,
          num_phases                   |-> np,
          pg_percent_phased            |-> pgp,
          construction_duration_phased |-> cdp,
          dlp_duration_phased          |-> dlp,
          bank_fee_rate                |-> bfr,
          apg_value_orig               |-> avo,
          pg_value_orig                |-> pvo,
          phase_contract_value         |-> pcv,
          apg_value_phased             |-> avp,
          pg_value_phased              |-> pvp,
          apg_duration_orig            |-> ado,
          pg_duration_orig             |-> pdo,
          apg_duration_phased          |-> adp,
          pg_duration_phased           |-> pdp,
          apg_annual_cost_orig         |-> aco.annual,
          apg_total_cost_orig          |-> aco.total,
          pg_annual_cost_orig          |-> pco.annual,
          pg_total_cost_orig           |-> pco.total,
          total_cost_orig              |-> tco,
          apg_annual_cost_phased       |-> acp.annual,
          apg_cost_per_phase           |-> acp.total,
          pg_annual_cost_phased        |-> pcp.annual,
          pg_cost_per_phase            |-> pcp.total,
          apg_total_cost_phased        |-> atp,
          pg_total_cost_phased         |-> ptp,
          total_cost_phased            |-> tcp,
          apg_savings                  |-> savings(aco.total, atp),
          pg_savings                   |-> savings(pco.total, ptp),
          total_savings                |-> savings(tco, tcp),
          credit_line_orig             |-> clo,
          credit_line_phased           |-> clp,
          credit_line_savings          |-> savings(clo, clp) ]

----------------------------------------------------------------------------
(* The state machine *)

Rerun_stale(wv) ==
    /\ widgets' = wv
    /\ ns' = [Calculations(wv) EXCEPT !.total_savings = ns.total_savings]

\* Streamlit re-executes the script in a fresh namespace on the new widget
\* values; nothing of the previous namespace is read.
Rerun(wv) ==
    /\ widgets' = wv
    /\ ns' = Calculations(wv)

Init ==
    /\ widgets = DefaultWidgets
    /\ ns = Calculations(DefaultWidgets)

SetTotalContractValue ==
    \E v \in ContractAttempts :
        /\ RLe(total_contract_value_min, v)
        /\ Rerun([widgets EXCEPT !.total_contract_value = v])

SetAdvancePaymentPercentOrig ==
    \E v \in AdvancePercentAttempts :
        /\ InRange(v, percent_slider_min, percent_slider_max)
        /\ Rerun([widgets EXCEPT !.advance_payment_percent_orig = v])

SetPgPercentOrig ==
    \E v \in PgPercentOrigAttempts :
        /\ InRange(v, percent_slider_min, percent_slider_max)
        /\ Rerun([widgets EXCEPT !.pg_percent_orig = v])

SetConstructionDurationOrig ==
    \E v \in ConstructionOrigAttempts :
        /\ InIntRange(v, construction_duration_orig_min, construction_duration_orig_max)
        /\ Rerun([widgets EXCEPT !.construction_duration_orig = v])

SetDlpDurationOrig ==
    \E v \in DlpOrigAttempts :
        /\ InIntRange(v, dlp_duration_min, dlp_duration_max)
        /\ Rerun([widgets EXCEPT !.dlp_duration_orig = v])

SetNumPhases ==
    \E v \in NumPhasesAttempts :
        /\ InIntRange(v, num_phases_min, num_phases_max)
        /\ Rerun([widgets EXCEPT !.num_phases = v])

SetPgPercentPhased ==
    \E v \in PgPercentPhasedAttempts :
        /\ InRange(v, percent_slider_min, percent_slider_max)
        /\ Rerun([widgets EXCEPT !.pg_percent_phased = v])

SetConstructionDurationPhased ==
    \E v \in ConstructionPhasedAttempts :
        /\ InIntRange(v, construction_duration_phased_min, construction_duration_phased_max)
        /\ Rerun([widgets EXCEPT !.construction_duration_phased = v])

SetDlpDurationPhased ==
    \E v \in DlpPhasedAttempts :
        /\ InIntRange(v, dlp_duration_min, dlp_duration_max)
        /\ Rerun([widgets EXCEPT !.dlp_duration_phased = v])

SetBankFeeRate ==
    \E v \in BankFeeAttempts :
        /\ InRange(v, bank_fee_slider_min, bank_fee_slider_max)
        /\ Rerun([widgets EXCEPT !.bank_fee_rate = v])

Next ==
    \/ SetTotalContractValue
    \/ SetAdvancePaymentPercentOrig
    \/ SetPgPercentOrig
    \/ SetConstructionDurationOrig
    \/ SetDlpDurationOrig
    \/ SetNumPhases
    \/ SetPgPercentPhased
    \/ SetConstructionDurationPhased
    \/ SetDlpDurationPhased
    \/ SetBankFeeRate

Spec == Init /\ [][Next]_vars

----------------------------------------------------------------------------
(* Properties *)

Zero == Num(0)

One == Num(1)

\* the declared ranges of the ten parameters (data model of the
\* specification), read off the namespace of the last run
RangesExceptContractValue(n) ==
    /\ InRange(n.advance_payment_percent_orig, Zero, One)
    /\ InRange(n.pg_percent_orig, Zero, One)
    /\ InRange(n.pg_percent_phased, Zero, One)
    /\ n.construction_duration_orig \in 1..24
    /\ n.construction_duration_phased \in 1..6
    /\ n.dlp_duration_orig \in 0..12
    /\ n.dlp_duration_phased \in 0..12
    /\ n.num_phases \in 1..5
    /\ InRange(n.bank_fee_rate, <<1, 1000>>, <<1, 10>>)

DeclaredRanges(n) ==
    /\ RLt(Zero, n.total_contract_value)
    /\ RangesExceptContractValue(n)

ValueFields ==
    {"apg_value_orig", "pg_value_orig", "phase_contract_value",
     "apg_value_phased", "pg_value_phased"}

DurationFields ==
    {"apg_duration_orig", "pg_duration_orig",
     "apg_duration_phased", "pg_duration_phased"}

CostFields ==
    {"apg_annual_cost_orig", "apg_total_cost_orig", "pg_annual_cost_orig",
     "pg_total_cost_orig", "total_cost_orig", "apg_annual_cost_phased",
     "apg_cost_per_phase", "pg_annual_cost_phased", "pg_cost_per_phase",
     "apg_total_cost_phased", "pg_total_cost_phased", "total_cost_phased"}

SavingsFields == {"apg_savings", "pg_savings", "total_savings"}

CreditLineFields ==
    {"credit_line_orig", "credit_line_phased", "credit_line_savings"}

ResultFields ==
    ValueFields \cup DurationFields \cup CostFields \cup SavingsFields
        \cup CreditLineFields

ScenarioWidgets ==
    [ total_contract_value         |-> Num(320000000),
      advance_payment_percent_orig |-> Num(40),
      pg_percent_orig              |-> Num(30),
      construction_duration_orig   |-> 12,
      dlp_duration_orig            |-> 6,
      num_phases                   |-> 4,
      pg_percent_phased            |-> Num(10),
      construction_duration_phased |-> 3,
      dlp_duration_phased          |-> 6,
      bank_fee_rate                |-> Num(1) ]

\* C1: on the concrete scenario (320,000,000; 40%; 30%; 12 and 6 months;
\* 4 phases; 10%; 3 and 6 months; 1%) the run yields the listed values,
\* durations, costs and credit lines.
C1Theorem ==
    widgets = ScenarioWidgets =>
        /\ ns.apg_value_orig = Num(128000000)
        /\ ns.pg_value_orig = Num(96000000)
        /\ ns.apg_duration_orig = Num(1)
        /\ ns.pg_duration_orig = <<3, 2>>
        /\ ns.apg_total_cost_orig = Num(1280000)
        /\ ns.pg_total_cost_orig = Num(1440000)
        /\ ns.total_cost_orig = Num(2720000)
        /\ ns.phase_contract_value = Num(80000000)
        /\ ns.apg_value_phased = Num(32000000)
        /\ ns.pg_value_phased = Num(8000000)
        /\ ns.credit_line_phased = Num(40000000)
        /\ ns.credit_line_orig = Num(128000000)

C1Witness ==
    /\ widgets = ScenarioWidgets
    /\ ns.bank_fee_rate = <<1, 100>>
    /\ ns.total_cost_orig = Num(2720000)

Doubled(wv) == [wv EXCEPT !.total_contract_value = RMul(Num(2), @)]

\* C2: doubling total_contract_value with the other nine parameters fixed
\* doubles every value, cost and savings field and leaves the four
\* durations unchanged.
C2Theorem ==
    DeclaredRanges(ns) =>
        LET d == Calculations(Doubled(widgets))
        IN  /\ \A f \in ValueFields \cup CostFields \cup SavingsFields :
                   d[f] = RMul(Num(2), ns[f])
            /\ \A f \in DurationFields : d[f] = ns[f]

C2Witness ==
    /\ DeclaredRanges(ns)
    /\ RLt(Zero, ns.total_cost_phased)
    /\ RLt(ns.total_savings, Zero)
    /\ Calculations(Doubled(widgets)).total_savings
           = RMul(Num(2), ns.total_savings)

\* C3: within the declared ranges both structure totals are non-negative.
C3Theorem ==
    DeclaredRanges(ns) =>
        /\ RLe(Zero, ns.total_cost_orig)
        /\ RLe(Zero, ns.total_cost_phased)

C3Witness ==
    /\ DeclaredRanges(ns)
    /\ RLt(Zero, ns.total_cost_orig)
    /\ RLt(ns.apg_total_cost_phased, ns.pg_total_cost_phased)

\* C4: every savings figure is exactly original minus phased, unrounded,
\* and the credit-line figures are apg_value_orig, apg_value_phased +
\* pg_value_phased and their difference.
C4Theorem ==
    DeclaredRanges(ns) =>
        /\ ns.apg_savings
               = RSub(ns.apg_total_cost_orig, ns.apg_total_cost_phased)
        /\ ns.pg_savings
               = RSub(ns.pg_total_cost_orig, ns.pg_total_cost_phased)
        /\ ns.total_savings
               = RSub(ns.total_cost_orig, ns.total_cost_phased)
        /\ ns.credit_line_orig = ns.apg_value_orig
        /\ ns.credit_line_phased
               = RAdd(ns.apg_value_phased, ns.pg_value_phased)
        /\ ns.credit_line_savings
               = RSub(ns.credit_line_orig, ns.credit_line_phased)

\* a run whose savings are not whole numbers
C4Witness ==
    /\ DeclaredRanges(ns)
    /\ IsDef(ns.total_savings)
    /\ ns.total_savings[2] > 1
    /\ ns.credit_line_savings[2] > 1

\* C5: within the declared ranges no step of the calculation fails and
\* every result field is produced; the divisor num_phases is never zero.
C5Theorem ==
    DeclaredRanges(ns) =>
        /\ ns.num_phases # 0
        /\ \A f \in ResultFields : IsDef(ns[f])

C5Witness ==
    /\ DeclaredRanges(ns)
    /\ ns.num_phases = 1
    /\ ns.bank_fee_rate = <<1, 1000>>
    /\ ns.construction_duration_orig = 12
    /\ ns.construction_duration_phased = 1
    /\ ns.dlp_duration_phased = 0
    /\ \A f \in ResultFields : IsDef(ns[f])

\* C6: after any sequence of input changes the namespace is the
\* calculation applied to the current widget values alone; nothing is
\* carried over from earlier runs.
C6Theorem == ns = Calculations(widgets)

C6Witness ==
    /\ widgets.num_phases = 5
    /\ widgets.construction_duration_orig = 12
    /\ widgets.bank_fee_rate = Num(10)
    /\ widgets.total_contract_value = Zero
    /\ ns = Calculations(widgets)

\* C7 as stated: every parameter set reaching the calculation is in the
\* declared ranges, total_contract_value being positive.
C7Original == DeclaredRanges(ns)

\* C7 (amended): every parameter set reaching the calculation has
\* total_contract_value >= 0 and the other nine parameters in their
\* declared ranges.
C7Theorem ==
    /\ RLe(Zero, ns.total_contract_value)
    /\ RangesExceptContractValue(ns)

C7Witness ==
    /\ ns.total_contract_value = Zero
    /\ ns.num_phases = 5
    /\ ns.pg_percent_phased = One
    /\ ns.bank_fee_rate = <<1, 1000>>
    /\ C7Theorem

\* C8: the phased structure is costed per phase and multiplied by the
\* phase count; the original advance-payment percentage is reused; the
\* phased annual costs stay per phase.
C8Theorem ==
    DeclaredRanges(ns) =>
        LET np == Num(ns.num_phases)
            r  == ns.bank_fee_rate
            m  == Num(ns.construction_duration_phased)
            md == Num(ns.construction_duration_phased
                          + ns.dlp_duration_phased)
        IN  /\ ns.phase_contract_value = RDiv(ns.total_contract_value, np)
            /\ ns.apg_value_phased
                   = RMul(ns.phase_contract_value,
                          ns.advance_payment_percent_orig)
            /\ ns.pg_value_phased
                   = RMul(ns.phase_contract_value, ns.pg_percent_phased)
            /\ ns.apg_total_cost_phased
                   = RMul(np, RDiv(RMul(RMul(ns.apg_value_phased, r), m),
                                   Num(12)))
            /\ ns.pg_total_cost_phased
                   = RMul(np, RDiv(RMul(RMul(ns.pg_value_phased, r), md),
                                   Num(12)))
            /\ ns.total_cost_phased
                   = RAdd(ns.apg_total_cost_phased, ns.pg_total_cost_phased)
            /\ ns.apg_annual_cost_phased = RMul(ns.apg_value_phased, r)
            /\ ns.pg_annual_cost_phased = RMul(ns.pg_value_phased, r)

C8Witness ==
    /\ DeclaredRanges(ns)
    /\ ns.num_phases = 3
    /\ ns.advance_payment_percent_orig # ns.pg_percent_phased
    /\ RLt(Zero, ns.apg_annual_cost_phased)
    /\ RLt(ns.apg_annual_cost_phased, ns.apg_total_cost_phased)

\* C9: credit_line_savings >= 0 exactly when advance_payment_percent_orig
\* * (num_phases - 1) >= pg_percent_phased; with one phase and a positive
\* phased PG percentage the credit line "freed" is negative.
C9Theorem ==
    DeclaredRanges(ns) =>
        /\ RLe(Zero, ns.credit_line_savings)
               <=> RLe(ns.pg_percent_phased,
                       RMul(ns.advance_payment_percent_orig,
                            Num(ns.num_phases - 1)))
        /\ (ns.num_phases = 1 /\ RLt(Zero, ns.pg_percent_phased)) =>
               /\ RLt(ns.credit_line_orig, ns.credit_line_phased)
               /\ RLt(ns.credit_line_savings, Zero)

C9Witness ==
    /\ DeclaredRanges(ns)
    /\ ns.num_phases = 1
    /\ RLt(Zero, ns.pg_percent_phased)
    /\ ns.pg_percent_phased = One
    /\ ns.dlp_duration_orig = 6
    /\ RLt(ns.credit_line_savings, Zero)

\* C10: apg_total_cost_phased does not depend on num_phases: it is
\* total_contract_value * advance_payment_percent_orig * bank_fee_rate *
\* construction_duration_phased / 12 for every phase count in 1..5; hence
\* apg_savings >= 0 when the phased construction is no longer than the
\* original one, and < 0 when it is longer and value, percentage and rate
\* are positive.
C10Theorem ==
    ns.num_phases \in 1..5 =>
        /\ ns.apg_total_cost_phased
               = RDiv(RMul(RMul(RMul(ns.total_contract_value,
                                     ns.advance_payment_percent_orig),
                                ns.bank_fee_rate),
                           Num(ns.construction_duration_phased)),
                      Num(12))
        /\ \A k \in 1..5 :
               Calculations([widgets EXCEPT !.num_phases = k])
                       .apg_total_cost_phased
                   = ns.apg_total_cost_phased
        /\ ns.construction_duration_phased <= ns.construction_duration_orig
               => RLe(Zero, ns.apg_savings)
        /\ ( /\ ns.construction_duration_phased
                    > ns.construction_duration_orig
             /\ RLt(Zero, ns.total_contract_value)
             /\ RLt(Zero, ns.advance_payment_percent_orig)
             /\ RLt(Zero, ns.bank_fee_rate) )
               => RLt(ns.apg_savings, Zero)

C10Witness ==
    /\ ns.num_phases = 5
    /\ ns.construction_duration_phased > ns.construction_duration_orig
    /\ RLt(ns.apg_savings, Zero)
    /\ RLt(Zero, ns.apg_cost_per_phase)

====
